---- MODULE Spec2Model ----
(***************************************************************************)
(* A model of the Raft node actor of actormq (src/raft/node.go).           *)
(*                                                                         *)
(* Every node is one nodeActor; its fields are the per-node variables      *)
(* below.  One action is one call of Receive: the pre-dispatch             *)
(* handleExternalTerm, the message's handler and the trailing              *)
(* updateStateMachine happen in the same step.  The transport is a FIFO    *)
(* channel per ordered pair of nodes.  The Entries of an AppendEntries are  *)
(* a slice of the sender's log array (node.log[nextIndex-1:]); when the    *)
(* engine reads that slice is not fixed by the program: at the send (a     *)
(* copy, a serialisation) or at the delivery (the message is handed over   *)
(* by pointer).  Both are allowed: the variable wire is settled by the     *)
(* first step in which they differ.  Under "pointer" a message that still  *)
(* shares the array shows what the sender has since written into it.       *)
(*                                                                         *)
(* The environment (election and heartbeat timer fires, client commands,   *)
(* membership announcements of the discovery service) is nondeterministic  *)
(* within the input queues of the variable env: the inputs of one queue    *)
(* arrive in order, the inputs of different queues and the deliveries of   *)
(* messages in any order.  The initial predicate of each specification     *)
(* sets the queues.                                                        *)
(***************************************************************************)
EXTENDS Integers, Sequences, FiniteSets, TLC

VARIABLES
    leader,           \* nodeActor.leader          (Nil when unset)
    currentTerm,      \* nodeActor.currentTerm
    votedFor,         \* nodeActor.votedFor        (Nil when unset)
    log,              \* nodeActor.log             (sequence of LogEntry)
    logCap,           \* cap(nodeActor.log): the capacity of the log's array
    commitIndex,      \* nodeActor.commitIndex
    lastApplied,      \* nodeActor.lastApplied
    votes,            \* nodeActor.votes
    nodes,            \* nodeActor.nodes           (peer -> nodeMetadata)
    pendingCommands,  \* nodeActor.pendingCommands (index -> client)
    crashed,          \* nodes whose Receive panicked (index out of range)
    net,              \* <<from, to>> -> messages in flight, oldest first
    wire,             \* how the engine hands a message over: "copy" (read at
                      \* the send), "pointer" (read at the delivery), or
                      \* "open" while no step has told the two apart
    held,             \* the links <<from, to>> that deliver nothing for now
    handled,          \* per node: the commands handed to config.Handler, in order
    replies,          \* per node: the CommandResults it sent, in order
    elected,          \* history: <<n, t>> when n set leader = self in term t
    rejections,       \* history: per leader and peer, the rejections the leader
                      \* handled since its promotion and before the peer's first
                      \* success (-1 after that success)
    env               \* what the environment may still do

vars == <<leader, currentTerm, votedFor, log, logCap, commitIndex, lastApplied, votes,
          nodes, pendingCommands, crashed, net, wire, held, handled, replies, elected,
          rejections, env>>

(***************************************************************************)
(* Program constants and model bounds.                                     *)
(***************************************************************************)
minServersForElection == 3

Nil == 0

\* The default specification: a three-node cluster.
NumServers == 3
MaxElections == 1
MaxCommands == 1
MaxHeartbeats == 1

Servers == 1 .. NumServers

\* The nodes of the cluster of the specification at hand.
Cluster == DOMAIN currentTerm

Min(a, b) == IF a < b THEN a ELSE b

\* pidEquals(a, b): nil-safe equality of two peer identities.
pidEquals(a, b) == a = b

(***************************************************************************)
(* Messages (actormq.pb.go).  The sender of a message is its channel; the  *)
(* identities the wire format carries are kept as fields.  The field       *)
(* shared of an AppendEntries tells whether its Entries still are a view   *)
(* on the array of the sender's log.                                       *)
(***************************************************************************)
AppendEntries(term, leaderPID, prevLogIndex, prevLogTerm, entries, leaderCommit) ==
    [type |-> "AppendEntries", term |-> term, leaderPID |-> leaderPID,
     prevLogIndex |-> prevLogIndex, prevLogTerm |-> prevLogTerm,
     entries |-> entries, leaderCommit |-> leaderCommit, shared |-> FALSE]

AppendEntriesResult(term, pid, success) ==
    [type |-> "AppendEntriesResult", term |-> term, pid |-> pid, success |-> success]

RequestVote(term, candidatePID, lastLogIndex, lastLogTerm) ==
    [type |-> "RequestVote", term |-> term, candidatePID |-> candidatePID,
     lastLogIndex |-> lastLogIndex, lastLogTerm |-> lastLogTerm]

RequestVoteResult(term, voteGranted) ==
    [type |-> "RequestVoteResult", term |-> term, voteGranted |-> voteGranted]

LogEntry(command, term) == [command |-> command, term |-> term]

\* Mutant of CommandResult: the redirection is left out.
CommandResultNoRedirect(success, redirectPID) ==
    [success |-> success, redirectPID |-> Nil]

CommandResult(success, redirectPID) == [success |-> success, redirectPID |-> redirectPID]

(***************************************************************************)
(* The state of one nodeActor as a record, and the context a call of       *)
(* Receive threads through its handlers: the node's state s, the messages  *)
(* sent so far (out, to peers; reply, to clients), the entries handed to   *)
(* the application handler (applied), whether the call panicked, whether   *)
(* it re-armed the election timer (rearm), the elements it stored into the *)
(* array of the log (writes), and the order in which a range over the peer *)
(* table visits the peers in this call (order; Go leaves it open).         *)
(***************************************************************************)
NodeState(n) ==
    [leader |-> leader[n], currentTerm |-> currentTerm[n], votedFor |-> votedFor[n],
     log |-> log[n], logCap |-> logCap[n], commitIndex |-> commitIndex[n],
     lastApplied |-> lastApplied[n],
     votes |-> votes[n], nodes |-> nodes[n], pendingCommands |-> pendingCommands[n]]

\* The elements of the set S of numbers in ascending order.
RECURSIVE Ascending(_)
Ascending(S) ==
    IF S = {} THEN <<>>
    ELSE LET p == CHOOSE q \in S : \A r \in S : q <= r
         IN  <<p>> \o Ascending(S \ {p})

\* The orders in which a range over a map with the keys S may visit them.
Orders(S) ==
    {f \in [1 .. Cardinality(S) -> S] :
        \A i \in DOMAIN f, j \in DOMAIN f : f[i] = f[j] => i = j}

\* A call of Receive on the node state s that ranges in the order ord.
CtxOf(s, ord) ==
    [s |-> s, out |-> <<>>, reply |-> <<>>, applied |-> <<>>, panic |-> FALSE,
     rearm |-> FALSE, writes |-> <<>>, order |-> ord]

Ctx(n) == CtxOf(NodeState(n), Ascending(DOMAIN nodes[n]))

\* The capacity of the array after append(s, e) on a slice of length len and
\* capacity cp that is full (the runtime doubles a small array).
grow(cp) == IF cp = 0 THEN 1 ELSE 2 * cp

\* The capacity of a log that k appends built.
RECURSIVE capacityOf(_)
capacityOf(k) ==
    IF k = 0 THEN 0
    ELSE LET cp == capacityOf(k - 1) IN IF k - 1 < cp THEN cp ELSE grow(cp)

\* node.log = append(node.log, entry) on the log lg of capacity cp: the new
\* capacity, and the store it makes (in place when the array has room,
\* else into a new array).
appendStore(lg, cp, entry) ==
    [cap |-> IF Len(lg) < cp THEN cp ELSE grow(cp),
     write |-> [pos |-> Len(lg) + 1, entry |-> entry, inPlace |-> Len(lg) < cp]]

Send(c, to, msg) == [c EXCEPT !.out = Append(@, [to |-> to, msg |-> msg])]

\* lastLogIndexAndTerm: <<lastLogIndex, lastLogTerm>>
lastLogIndexAndTerm(s) ==
    <<Len(s.log), IF Len(s.log) > 0 THEN s.log[Len(s.log)].term ELSE 0>>

\* Mutant of handleExternalTerm: adopts any term that differs, also a lower one.
handleExternalTermAnyTerm(c, term) ==
    IF term # c.s.currentTerm
    THEN [c EXCEPT !.s.currentTerm = term, !.s.leader = Nil, !.s.votedFor = Nil]
    ELSE c

\* Mutant of handleExternalTerm: the term advances, the leader field stays.
handleExternalTermKeepLeader(c, term) ==
    IF term > c.s.currentTerm
    THEN [c EXCEPT !.s.currentTerm = term, !.s.votedFor = Nil]
    ELSE c

\* handleExternalTerm: the pre-dispatch term advance.
handleExternalTerm(c, term) ==
    IF term > c.s.currentTerm
    THEN [c EXCEPT !.s.currentTerm = term, !.s.leader = Nil, !.s.votedFor = Nil]
    ELSE c

\* handleActiveNodes: the peer table is rebuilt from the announced membership.
handleActiveNodes(c, self, view) ==
    [c EXCEPT !.s.nodes =
        [p \in view \ {self} |->
            [nextIndex |-> lastLogIndexAndTerm(c.s)[1] + 1, matchIndex |-> 0]]]

\* sendAppendEntries: one AppendEntries to peer pid, built from its nextIndex.
\* Reading log[prevLogIndex-1] past the end of the log panics.  Entries that
\* are not empty are the slice node.log[nextIndex-1:] of the log's array.
sendAppendEntries(c, self, pid) ==
    IF c.panic \/ pid \notin DOMAIN c.s.nodes THEN c
    ELSE LET nextIndex == c.s.nodes[pid].nextIndex
             lastLogIndex == lastLogIndexAndTerm(c.s)[1]
             entries == IF lastLogIndex >= nextIndex
                        THEN SubSeq(c.s.log, nextIndex, lastLogIndex)
                        ELSE <<>>
             prevLogIndex == nextIndex - 1
         IN  IF nextIndex = 0 THEN c
             ELSE IF prevLogIndex > Len(c.s.log) THEN [c EXCEPT !.panic = TRUE]
             ELSE Send(c, pid,
                       [AppendEntries(c.s.currentTerm, self, prevLogIndex,
                                      IF prevLogIndex > 0
                                      THEN c.s.log[prevLogIndex].term ELSE 0,
                                      entries, c.s.commitIndex)
                            EXCEPT !.shared = lastLogIndex >= nextIndex])

\* The loop of sendAppendEntriesAll over the peers still to visit, a sequence
\* in the order of this call; after a panic sendAppendEntries does nothing.
RECURSIVE sendAppendEntriesTo(_, _, _)
sendAppendEntriesTo(c, self, peers) ==
    IF peers = <<>> THEN c
    ELSE sendAppendEntriesTo(sendAppendEntries(c, self, Head(peers)), self, Tail(peers))

\* sendAppendEntriesAll: one AppendEntries to every peer of the table.
sendAppendEntriesAll(c, self) ==
    sendAppendEntriesTo(c, self, SelectSeq(c.order, LAMBDA p : p \in DOMAIN c.s.nodes))

\* handleCommand: the leader appends and replicates, any other node redirects.
handleCommand(c, self, client, command) ==
    IF pidEquals(c.s.leader, self)
    THEN LET entry == LogEntry(command, c.s.currentTerm)
             newLog == Append(c.s.log, entry)
             st == appendStore(c.s.log, c.s.logCap, entry)
             c1 == [c EXCEPT !.s.log = newLog,
                             !.s.logCap = st.cap,
                             !.writes = Append(@, st.write),
                             !.s.pendingCommands =
                                 [i \in DOMAIN @ \cup {Len(newLog)} |->
                                     IF i = Len(newLog) THEN client ELSE @[i]]]
         IN  sendAppendEntriesAll(c1, self)
    ELSE [c EXCEPT !.reply = Append(@, [to |-> client,
                                        msg |-> CommandResult(FALSE, c.s.leader),
                                        index |-> 0, command |-> command])]

\* Mutant of appendNewEntries: every entry of the message is appended, also
\* one the log already holds.
RECURSIVE appendNewEntriesAlways(_, _, _)
appendNewEntriesAlways(lg, newEntryIndex, entries) ==
    IF entries = <<>> THEN lg
    ELSE appendNewEntriesAlways(Append(lg, Head(entries)), newEntryIndex + 1,
                                Tail(entries))

\* The loop of handleAppendEntries over msg.Entries: Condition #3 (truncate at
\* a conflicting term) and Condition #4 (append what is missing).
RECURSIVE appendNewEntries(_, _, _)
appendNewEntries(lg, newEntryIndex, entries) ==
    IF entries = <<>> THEN lg
    ELSE LET idx == newEntryIndex + 1
             entry == Head(entries)
             cut == IF Len(lg) >= idx /\ lg[idx].term # entry.term
                    THEN SubSeq(lg, 1, idx - 1) ELSE lg
             app == IF Len(cut) < idx THEN Append(cut, entry) ELSE cut
         IN  appendNewEntries(app, idx, Tail(entries))

\* The stores the loop of handleAppendEntries makes into the array of the
\* log (one per entry it appends, line 195), and the capacity after them.
RECURSIVE appendStores(_, _, _, _)
appendStores(lg, cp, newEntryIndex, entries) ==
    IF entries = <<>> THEN [cap |-> cp, writes |-> <<>>]
    ELSE LET entry == Head(entries)
             app == appendNewEntries(lg, newEntryIndex, <<entry>>)
             st == appendStore(SubSeq(app, 1, Len(app) - 1), cp, entry)
             rest == appendStores(app, IF app # lg THEN st.cap ELSE cp,
                                  newEntryIndex + 1, Tail(entries))
         IN  IF app # lg
             THEN [cap |-> rest.cap, writes |-> <<st.write>> \o rest.writes]
             ELSE rest

\* The success value handleAppendEntries answers with.
appendEntriesSuccess(s, msg) ==
    /\ ~(msg.term < s.currentTerm)
    /\ ~(/\ msg.prevLogIndex > 0
         /\ \/ Len(s.log) < msg.prevLogIndex
            \/ (Len(s.log) > 0 /\ s.log[msg.prevLogIndex].term # msg.prevLogTerm))

\* Mutant of followerCommit: the receiver ignores leaderCommit.
followerCommitNever(commit, leaderCommit, newEntryIndex) == commit

\* Condition #5 of handleAppendEntries.
followerCommit(commit, leaderCommit, newEntryIndex) ==
    IF leaderCommit > commit THEN Min(leaderCommit, newEntryIndex) ELSE commit

\* handleAppendEntries: the receiver's side of replication; the deferred reply
\* carries the receiver's identity and its current term.  An accepted message
\* stops and resets the election timer.
handleAppendEntries(c, self, from, msg) ==
    LET success == appendEntriesSuccess(c.s, msg)
        c1 == IF msg.term < c.s.currentTerm THEN c
              ELSE [c EXCEPT !.s.leader = msg.leaderPID]
        c2 == IF ~success THEN c1
              ELSE [c1 EXCEPT
                      !.s.log = appendNewEntries(@, msg.prevLogIndex, msg.entries),
                      !.s.logCap = appendStores(c1.s.log, @, msg.prevLogIndex,
                                                msg.entries).cap,
                      !.writes = @ \o appendStores(c1.s.log, c1.s.logCap,
                                                   msg.prevLogIndex,
                                                   msg.entries).writes,
                      !.s.commitIndex =
                          followerCommit(@, msg.leaderCommit,
                                         msg.prevLogIndex + Len(msg.entries)),
                      !.rearm = TRUE]
    IN  Send(c2, from, AppendEntriesResult(c2.s.currentTerm, self, success))

\* The cursors of a peer after its AppendEntriesResult.
cursorsAfterResult(meta, success, lastLogIndex) ==
    IF success
    THEN [nextIndex |-> lastLogIndex + 1, matchIndex |-> meta.nextIndex - 1]
    ELSE [meta EXCEPT !.nextIndex = IF @ > 1 THEN @ - 1 ELSE @]

\* handleAppendEntriesResult: move the peer's cursors; on a rejection back off
\* by one and send again at once.
handleAppendEntriesResult(c, self, msg) ==
    IF msg.pid \notin DOMAIN c.s.nodes THEN c
    ELSE LET c1 == [c EXCEPT !.s.nodes[msg.pid] =
                        cursorsAfterResult(@, msg.success,
                                           lastLogIndexAndTerm(c.s)[1])]
         IN  IF msg.success THEN c1 ELSE sendAppendEntries(c1, self, msg.pid)

\* The up-to-date check of handleRequestVote, against lastApplied.
candidateUpToDate(s, msg) ==
    /\ msg.lastLogIndex >= s.lastApplied
    /\ (s.lastApplied = 0 \/ msg.lastLogTerm >= s.log[s.lastApplied].term)

\* Mutant of grantsVote: the vote is granted whatever votedFor holds.
grantsVoteAgain(s, msg) ==
    /\ ~(msg.term < s.currentTerm)
    /\ candidateUpToDate(s, msg)

\* Whether handleRequestVote grants the vote.
grantsVote(s, msg) ==
    /\ ~(msg.term < s.currentTerm)
    /\ (s.votedFor = Nil \/ s.votedFor = msg.candidatePID)
    /\ candidateUpToDate(s, msg)

\* handleRequestVote: the deferred reply carries the receiver's current term.
\* Reading log[lastApplied-1] past the end of the log panics (the deferred
\* reply is still sent).
handleRequestVote(c, self, from, msg) ==
    LET reads == /\ ~(msg.term < c.s.currentTerm)
                 /\ (c.s.votedFor = Nil \/ c.s.votedFor = msg.candidatePID)
                 /\ msg.lastLogIndex >= c.s.lastApplied
                 /\ c.s.lastApplied # 0
        oob == reads /\ c.s.lastApplied > Len(c.s.log)
        grant == ~oob /\ grantsVote(c.s, msg)
        c1 == IF grant THEN [c EXCEPT !.s.votedFor = msg.candidatePID] ELSE c
    IN  [Send(c1, from, RequestVoteResult(c1.s.currentTerm, grant))
            EXCEPT !.panic = oob]

\* Mutant of wonElection: no number of votes wins.
wonElectionNever(numVotes, numPeers) == numVotes > numPeers + 1

\* The promotion test of handleRequestVoteResult: float32(votes)/float32(len(nodes)) > 0.5
\* (a division by zero is +Inf in floating point).
wonElection(numVotes, numPeers) ==
    IF numPeers = 0 THEN TRUE ELSE 2 * numVotes > numPeers

\* handleRequestVoteResult: count the vote; promote on the threshold.
handleRequestVoteResult(c, self, msg) ==
    IF msg.voteGranted /\ msg.term = c.s.currentTerm /\ ~pidEquals(c.s.leader, self)
    THEN LET c1 == [c EXCEPT !.s.votes = @ + 1]
         IN  IF wonElection(c1.s.votes, Cardinality(DOMAIN c1.s.nodes))
             THEN sendAppendEntriesAll(
                    [c1 EXCEPT !.s.leader = self,
                               !.s.nodes = [p \in DOMAIN @ |->
                                   [nextIndex |-> lastLogIndexAndTerm(c1.s)[1] + 1,
                                    matchIndex |-> 0]]],
                    self)
             ELSE c1
    ELSE c

\* startElection: a new term, a vote for oneself, RequestVote to every peer
\* unless the cluster is too small.
startElection(c, self) ==
    LET c1 == [c EXCEPT !.s.currentTerm = @ + 1, !.s.votes = 1, !.s.votedFor = self]
        ll == lastLogIndexAndTerm(c1.s)
        RECURSIVE sendTo(_, _)
        sendTo(cc, peers) ==
            IF peers = {} THEN cc
            ELSE LET p == CHOOSE q \in peers : \A r \in peers : q <= r
                 IN  sendTo(Send(cc, p, RequestVote(c1.s.currentTerm, self, ll[1], ll[2])),
                            peers \ {p})
    IN  IF Cardinality(DOMAIN c1.s.nodes) + 1 < minServersForElection THEN c1
        ELSE sendTo(c1, DOMAIN c1.s.nodes)

\* case checkTimers, electionTimer fired: the timer is reset, and a node that
\* is not leader starts an election.
electionTimerFired(c, self) ==
    LET c1 == [c EXCEPT !.rearm = TRUE]
    IN  IF ~pidEquals(self, c1.s.leader) THEN startElection(c1, self) ELSE c1

\* The quorum test of the leader's commit scan: float32(matched) > float32(len(nodes))/2.
commitQuorum(matched, numPeers) == 2 * matched > numPeers

\* Mutant of leaderCommitIndex: the scan commits the largest index a quorum
\* matches, whatever the term of its entry.
leaderCommitIndexAnyTerm(s) ==
    LET ok(i) == commitQuorum(Cardinality({p \in DOMAIN s.nodes :
                                              s.nodes[p].matchIndex >= i}),
                              Cardinality(DOMAIN s.nodes))
        cand == {i \in (s.commitIndex + 1) .. Len(s.log) : ok(i)}
    IN  IF cand = {} THEN s.commitIndex
        ELSE CHOOSE i \in cand : \A j \in cand : j <= i

\* The index the leader's scan of updateStateMachine commits: the largest i in
\* commitIndex+1 .. len(log) of the current term that a quorum matches, or the
\* old commitIndex.
leaderCommitIndex(s) ==
    LET ok(i) == /\ s.log[i].term = s.currentTerm
                 /\ commitQuorum(Cardinality({p \in DOMAIN s.nodes :
                                                s.nodes[p].matchIndex >= i}),
                                 Cardinality(DOMAIN s.nodes))
        cand == {i \in (s.commitIndex + 1) .. Len(s.log) : ok(i)}
    IN  IF cand = {} THEN s.commitIndex
        ELSE CHOOSE i \in cand : \A j \in cand : j <= i

\* The apply loop of updateStateMachine.
RECURSIVE applyCommitted(_)
applyCommitted(c) ==
    IF c.panic \/ ~(c.s.commitIndex > c.s.lastApplied) THEN c
    ELSE LET i == c.s.lastApplied + 1
         IN  IF i > Len(c.s.log) THEN [c EXCEPT !.s.lastApplied = i, !.panic = TRUE]
             ELSE LET entry == c.s.log[i]
                      c1 == [c EXCEPT !.s.lastApplied = i,
                                      !.applied = Append(@, entry)]
                      c2 == IF i \in DOMAIN c.s.pendingCommands
                            THEN [c1 EXCEPT
                                    !.reply = Append(@,
                                        [to |-> c.s.pendingCommands[i],
                                         msg |-> CommandResult(TRUE, Nil),
                                         index |-> i, command |-> entry.command]),
                                    !.s.pendingCommands =
                                        [j \in DOMAIN @ \ {i} |-> @[j]]]
                            ELSE c1
                  IN  applyCommitted(c2)

\* updateStateMachine: the advance step that ends every call of Receive.
updateStateMachine(c, self) ==
    IF c.panic THEN c
    ELSE LET ci == IF pidEquals(c.s.leader, self)
                   THEN leaderCommitIndex(c.s) ELSE c.s.commitIndex
         IN  applyCommitted([c EXCEPT !.s.commitIndex = ci])

(***************************************************************************)
(* The transport.                                                          *)
(***************************************************************************)
RECURSIVE deliver(_, _, _)
deliver(nt, from, out) ==
    IF out = <<>> THEN nt
    ELSE deliver([nt EXCEPT ![<<from, Head(out).to>>] = Append(@, Head(out).msg)],
                 from, Tail(out))

\* An AppendEntries in flight after its sender stored w into the array of
\* its log.  A message that shares the array and holds the position shows
\* the new element when the engine reads it at the delivery (seen), and was
\* read before the store otherwise; a message that was read, or whose array
\* the log has left (the append moved the log to a new array), shares
\* nothing any more.
afterStore(msg, w, seen) ==
    IF msg.type # "AppendEntries" THEN msg
    ELSE IF ~msg.shared THEN msg
    ELSE IF ~w.inPlace THEN [msg EXCEPT !.shared = FALSE]
    ELSE IF ~(msg.prevLogIndex < w.pos /\ w.pos <= msg.prevLogIndex + Len(msg.entries))
         THEN msg
    ELSE IF seen
         THEN [msg EXCEPT !.entries[w.pos - msg.prevLogIndex] = w.entry]
    ELSE [msg EXCEPT !.shared = FALSE]

\* The messages in flight after node from made the stores writes, in order.
RECURSIVE afterStores(_, _, _, _)
afterStores(nt, from, writes, seen) ==
    IF writes = <<>> THEN nt
    ELSE afterStores([ch \in DOMAIN nt |->
                        IF ch[1] = from
                        THEN [i \in 1 .. Len(nt[ch]) |->
                                 afterStore(nt[ch][i], Head(writes), seen)]
                        ELSE nt[ch]],
                     from, Tail(writes), seen)

\* How the engine hands messages over, after node from made the stores
\* writes: open until a store changes a message in flight.
Wires(nt, from, writes) ==
    IF wire = "open" /\ afterStores(nt, from, writes, TRUE)
                          # afterStores(nt, from, writes, FALSE)
    THEN {"copy", "pointer"}
    ELSE {wire}

\* The message msg as a copy: it shares nothing with the log of its sender.
copied(msg) ==
    IF msg.type = "AppendEntries" THEN [msg EXCEPT !.shared = FALSE] ELSE msg

\* The messages in flight after node from made the stores writes and sent
\* the messages out, the engine handing messages over as w says.
transmit(nt, from, writes, out, w) ==
    LET sent == deliver(afterStores(nt, from, writes, w = "pointer"), from, out)
    IN  IF w # "copy" THEN sent
        ELSE [ch \in DOMAIN sent |->
                 [i \in 1 .. Len(sent[ch]) |-> copied(sent[ch][i])]]

\* The effect of one call of Receive on node n that ended in context c.
Commit(n, c) ==
    /\ leader' = [leader EXCEPT ![n] = c.s.leader]
    /\ currentTerm' = [currentTerm EXCEPT ![n] = c.s.currentTerm]
    /\ votedFor' = [votedFor EXCEPT ![n] = c.s.votedFor]
    /\ log' = [log EXCEPT ![n] = c.s.log]
    /\ logCap' = [logCap EXCEPT ![n] = c.s.logCap]
    /\ commitIndex' = [commitIndex EXCEPT ![n] = c.s.commitIndex]
    /\ lastApplied' = [lastApplied EXCEPT ![n] = c.s.lastApplied]
    /\ votes' = [votes EXCEPT ![n] = c.s.votes]
    /\ nodes' = [nodes EXCEPT ![n] = c.s.nodes]
    /\ pendingCommands' = [pendingCommands EXCEPT ![n] = c.s.pendingCommands]
    /\ crashed' = IF c.panic THEN crashed \cup {n} ELSE crashed
    /\ handled' = [handled EXCEPT ![n] = @ \o c.applied]
    /\ replies' = [replies EXCEPT ![n] = @ \o c.reply]
    /\ elected' = IF c.s.leader = n THEN elected \cup {<<n, c.s.currentTerm>>}
                  ELSE elected

\* The history of rejections after node to, leader before and after the
\* step (ldr is its leader field after it), handled the result msg of from.
\* A result of a peer that is not in the table is dropped, not handled.
countResult(rj, to, from, msg, ldr) ==
    IF ~(pidEquals(leader[to], to) /\ pidEquals(ldr, to)) THEN rj
    ELSE IF msg.pid \notin DOMAIN nodes[to] THEN rj
    ELSE IF msg.success THEN [rj EXCEPT ![to][from] = -1]
    ELSE IF rj[to][from] >= 0 THEN [rj EXCEPT ![to][from] = @ + 1]
    ELSE rj

(***************************************************************************)
(* Actions: one per case of Receive.                                       *)
(***************************************************************************)
\* case *actormq.AppendEntries
ReceiveAppendEntries(from, to) ==
    /\ to \notin crashed
    /\ <<from, to>> \notin held
    /\ net[<<from, to>>] # <<>>
    /\ LET msg == Head(net[<<from, to>>])
       IN  /\ msg.type = "AppendEntries"
           /\ \E c2 \in {handleAppendEntries(handleExternalTerm(Ctx(to), msg.term),
                                       to, from, msg)} :
              \E c \in {updateStateMachine(c2, to)} :
                  /\ Commit(to, c)
                  /\ \E w \in Wires([net EXCEPT ![<<from, to>>] = Tail(@)], to, c.writes) :
                        /\ wire' = w
                        /\ net' = transmit([net EXCEPT ![<<from, to>>] = Tail(@)],
                                           to, c.writes, c.out, w)
    /\ UNCHANGED <<env, held, rejections>>

\* case *actormq.AppendEntriesResult
ReceiveAppendEntriesResult(from, to) ==
    /\ to \notin crashed
    /\ <<from, to>> \notin held
    /\ net[<<from, to>>] # <<>>
    /\ LET msg == Head(net[<<from, to>>])
       IN  /\ msg.type = "AppendEntriesResult"
           /\ \E c2 \in {handleAppendEntriesResult(
                             handleExternalTerm(Ctx(to), msg.term), to, msg)} :
              \E c \in {updateStateMachine(c2, to)} :
                  /\ Commit(to, c)
                  /\ net' = transmit([net EXCEPT ![<<from, to>>] = Tail(@)], to, c.writes,
                                     c.out, wire)
    /\ rejections' = countResult(rejections, to, from, Head(net[<<from, to>>]),
                                  leader'[to])
    /\ UNCHANGED <<env, held, wire>>

\* case *actormq.RequestVote
ReceiveRequestVote(from, to) ==
    /\ to \notin crashed
    /\ <<from, to>> \notin held
    /\ net[<<from, to>>] # <<>>
    /\ LET msg == Head(net[<<from, to>>])
       IN  /\ msg.type = "RequestVote"
           /\ \E c2 \in {handleRequestVote(handleExternalTerm(Ctx(to), msg.term),
                                     to, from, msg)} :
              \E c \in {updateStateMachine(c2, to)} :
                  /\ Commit(to, c)
                  /\ net' = transmit([net EXCEPT ![<<from, to>>] = Tail(@)], to, c.writes,
                                     c.out, wire)
    /\ UNCHANGED <<env, held, rejections, wire>>

\* case *actormq.RequestVoteResult
ReceiveRequestVoteResult(from, to) ==
    /\ to \notin crashed
    /\ <<from, to>> \notin held
    /\ net[<<from, to>>] # <<>>
    /\ LET msg == Head(net[<<from, to>>])
       IN  /\ msg.type = "RequestVoteResult"
           /\ \E c2 \in {handleRequestVoteResult(
                             handleExternalTerm(CtxOf(NodeState(to), ord), msg.term),
                             to, msg) : ord \in Orders(DOMAIN nodes[to])} :
              \E c \in {updateStateMachine(c2, to)} :
                  /\ Commit(to, c)
                  /\ net' = transmit([net EXCEPT ![<<from, to>>] = Tail(@)], to, c.writes,
                                     c.out, wire)
    /\ rejections' = IF leader'[to] = to /\ leader[to] # to
                      THEN [rejections EXCEPT ![to] = [p \in DOMAIN @ |-> 0]]
                      ELSE rejections
    /\ UNCHANGED <<env, held, wire>>

\* The environment's inputs still to come: env is a tuple of queues of
\* inputs; the inputs of one queue arrive in its order, those of different
\* queues in any order.  An input is a timer fire, a client's command or a
\* membership announcement, for one node, or a change of the links that the
\* transport delays.
Pending(q, kind) == env[q] # <<>> /\ Head(env[q]).kind = kind

\* case *actormq.Command: a client submits a command to node n.  A client
\* that follows redirections (stray = FALSE) submits it while n is leader.
ReceiveCommand(q) ==
    /\ Pending(q, "Command")
    /\ LET in == Head(env[q])
           n == in.node
       IN  /\ n \notin crashed
           /\ in.stray \/ pidEquals(leader[n], n)
           /\ \E c2 \in {handleCommand(CtxOf(NodeState(n), ord), n, in.client,
                                       in.command) :
                            ord \in Orders(DOMAIN nodes[n])} :
              \E c \in {updateStateMachine(c2, n)} :
                  /\ Commit(n, c)
                  /\ \E w \in Wires(net, n, c.writes) :
                        /\ wire' = w
                        /\ net' = transmit(net, n, c.writes, c.out, w)
    /\ env' = [env EXCEPT ![q] = Tail(@)]
    /\ UNCHANGED <<held, rejections>>

\* case *actormq.ActiveNodes: discovery announces a membership view to node n.
ReceiveActiveNodes(q) ==
    /\ Pending(q, "ActiveNodes")
    /\ LET in == Head(env[q])
           n == in.node
       IN  /\ n \notin crashed
           /\ \E c2 \in {handleActiveNodes(Ctx(n), n, in.view)} :
              \E c \in {updateStateMachine(c2, n)} :
                  /\ Commit(n, c)
                  /\ net' = transmit(net, n, c.writes, c.out, wire)
    /\ env' = [env EXCEPT ![q] = Tail(@)]
    /\ UNCHANGED <<held, rejections, wire>>

\* No message is in flight.
Quiet == \A ch \in DOMAIN net : net[ch] = <<>>

\* case checkTimers, heartbeatTimer fired.  On a node that is not leader the
\* fire changes nothing but the timer: it is a stuttering step.  A periodic
\* heartbeat (again = TRUE) stays in its queue; its period is longer than the
\* delivery of the messages of the previous one, so it fires when no message
\* is in flight.
HeartbeatTimeout(q) ==
    /\ Pending(q, "Heartbeat")
    /\ LET n == Head(env[q]).node
       IN  /\ n \notin crashed
           /\ pidEquals(leader[n], n)
           /\ Head(env[q]).again => Quiet
           /\ \E c2 \in {sendAppendEntriesAll(CtxOf(NodeState(n), ord), n) :
                            ord \in Orders(DOMAIN nodes[n])} :
              \E c \in {updateStateMachine(c2, n)} :
                  /\ Commit(n, c)
                  /\ net' = transmit(net, n, c.writes, c.out, wire)
    /\ env' = IF Head(env[q]).again THEN env ELSE [env EXCEPT ![q] = Tail(@)]
    /\ UNCHANGED <<held, rejections, wire>>

\* case checkTimers, electionTimer fired.  On the leader the fire changes
\* nothing but the timer: it is a stuttering step.
ElectionTimeout(q) ==
    /\ Pending(q, "Election")
    /\ LET n == Head(env[q]).node
       IN  /\ n \notin crashed
           /\ ~pidEquals(n, leader[n])
           /\ \E c2 \in {electionTimerFired(Ctx(n), n)} :
              \E c \in {updateStateMachine(c2, n)} :
                  /\ Commit(n, c)
                  /\ net' = transmit(net, n, c.writes, c.out, wire)
    /\ env' = [env EXCEPT ![q] = Tail(@)]
    /\ UNCHANGED <<held, rejections, wire>>

\* The transport delays the messages of some links: from now on exactly the
\* links of the input deliver nothing (their messages stay in flight, in order).
\* A change that waits (settled) comes when the links that deliver have
\* delivered all their messages.
Delay(q) ==
    /\ Pending(q, "Delay")
    /\ Head(env[q]).settled => \A ch \in DOMAIN net \ held : net[ch] = <<>>
    /\ held' = Head(env[q]).links
    /\ env' = [env EXCEPT ![q] = Tail(@)]
    /\ UNCHANGED <<leader, currentTerm, votedFor, log, logCap, commitIndex, lastApplied, votes,
                   nodes, pendingCommands, crashed, net, wire, handled, replies,
                   elected, rejections>>

Next ==
    \/ \E from \in Cluster, to \in Cluster : ReceiveAppendEntries(from, to)
    \/ \E from \in Cluster, to \in Cluster : ReceiveAppendEntriesResult(from, to)
    \/ \E from \in Cluster, to \in Cluster : ReceiveRequestVote(from, to)
    \/ \E from \in Cluster, to \in Cluster : ReceiveRequestVoteResult(from, to)
    \/ \E q \in DOMAIN env : ReceiveCommand(q)
    \/ \E q \in DOMAIN env : ReceiveActiveNodes(q)
    \/ \E q \in DOMAIN env : HeartbeatTimeout(q)
    \/ \E q \in DOMAIN env : ElectionTimeout(q)
    \/ \E q \in DOMAIN env : Delay(q)

(***************************************************************************)
(* Initial states.  Every node is freshly constructed: term zero, an empty *)
(* log and an empty peer table, which the first ActiveNodes fills.         *)
(***************************************************************************)
InitNodes(S) ==
    /\ leader = [n \in S |-> Nil]
    /\ currentTerm = [n \in S |-> 0]
    /\ votedFor = [n \in S |-> Nil]
    /\ log = [n \in S |-> <<>>]
    /\ logCap = [n \in S |-> 0]
    /\ commitIndex = [n \in S |-> 0]
    /\ lastApplied = [n \in S |-> 0]
    /\ votes = [n \in S |-> 0]
    /\ nodes = [n \in S |-> <<>>]
    /\ pendingCommands = [n \in S |-> <<>>]
    /\ crashed = {}
    /\ net = [ch \in S \X S |-> <<>>]
    /\ wire = "open"
    /\ held = {}
    /\ handled = [n \in S |-> <<>>]
    /\ replies = [n \in S |-> <<>>]
    /\ elected = {}
    /\ rejections = [n \in S |-> [p \in S |-> 0]]

\* The environment's inputs.
Election(n) == [kind |-> "Election", node |-> n]
Heartbeat(n) == [kind |-> "Heartbeat", node |-> n, again |-> FALSE]
\* The heartbeat timer of node n fires again and again.
Heartbeats(n) == [kind |-> "Heartbeat", node |-> n, again |-> TRUE]
Hold(links) == [kind |-> "Delay", links |-> links, settled |-> FALSE]
\* The same once the links that deliver are empty.
Settle(links) == [Hold(links) EXCEPT !.settled = TRUE]
Announce(n, view) == [kind |-> "ActiveNodes", node |-> n, view |-> view]
\* The k-th command of the client of node n.
Command(n, k) == [kind |-> "Command", node |-> n, client |-> 100 + n,
                  command |-> 10 * n + k, stray |-> FALSE]
Stray(n, k) == [Command(n, k) EXCEPT !.stray = TRUE]

\* The client that submits the command (see Command).
Submitter(command) == 100 + command \div 10

\* k times the input in.
Times(k, in) == [i \in 1 .. k |-> in]

\* Discovery announces the membership S to every node of S, in turn.
Startup(S) == [i \in 1 .. Cardinality(S) |-> Announce(i, S)]

\* The default specification: a cluster of NumServers nodes.  After the
\* startup announcements the election timers of nodes 1 and 2 fire; at any
\* time a client submits commands to node 1, the heartbeat timer of node 1
\* fires, and the transport starts to delay the link from node 1 to node 3.
Init ==
    /\ InitNodes(Servers)
    /\ env = << Startup(Servers) \o Times(MaxElections, Election(1))
                                \o Times(MaxElections, Election(2)),
                [k \in 1 .. MaxCommands |-> Stray(1, k)],
                Times(MaxHeartbeats, Heartbeat(1)),
                <<Hold({<<1, 3>>})>> >>

Spec == Init /\ [][Next]_vars

\* A cluster of four nodes in which the two candidates do not hear each
\* other: the election timers of nodes 1 and 2 fire, then each of them is
\* given a command and the heartbeat timer of node 1 fires.
InitEven ==
    /\ InitNodes(1 .. 4)
    /\ env = << Startup(1 .. 4) \o
                <<Hold({<<1, 2>>, <<2, 1>>}), Election(1), Election(2),
                  Command(1, 1), Command(2, 1), Heartbeat(1)>> >>

SpecEven == InitEven /\ [][Next]_vars

\* A cluster of three nodes in which the replication traffic of the first
\* leader is delayed: node 1 is elected and sends a heartbeat, then the links
\* from node 1 deliver nothing while it is given two commands; the election
\* timer of node 2 fires, node 2 is given a command, and the link from node 1
\* to node 2 delivers again.
InitDelayed ==
    /\ InitNodes(1 .. 3)
    /\ env = << Startup(1 .. 3) \o
                <<Election(1), Heartbeat(1), Hold({<<1, 2>>, <<1, 3>>}),
                  Command(1, 1), Command(1, 2), Election(2), Command(2, 1),
                  Hold({<<1, 3>>})>> >>

SpecDelayed == InitDelayed /\ [][Next]_vars

\* A cluster of three nodes with two leaders in turn whose replication
\* traffic is answered late.  Node 1 is elected and sends a heartbeat; while
\* its links deliver nothing in either direction it is given three commands,
\* then the answers of its peers arrive.  The election timer of node 2 fires
\* and node 2 sends a heartbeat while node 1 can hear but not answer.  Then
\* the link from node 1 to node 2 delivers again, node 2 is given two
\* commands, the traffic from node 2 reaches node 1, and at last the answers
\* of nodes 1 and 3 reach node 2.  Most changes of the delays wait until the
\* links that deliver are empty.
InitLate ==
    /\ InitNodes(1 .. 3)
    /\ env = << Startup(1 .. 3) \o
                <<Election(1),
                  Hold({<<2, 1>>, <<3, 1>>}),
                  Heartbeat(1),
                  Settle({<<1, 2>>, <<1, 3>>, <<2, 1>>, <<3, 1>>}),
                  Command(1, 1), Command(1, 2), Command(1, 3),
                  Settle({<<1, 2>>, <<1, 3>>}),
                  Settle({<<1, 2>>, <<1, 3>>, <<2, 1>>, <<3, 1>>}),
                  Election(2),
                  Hold({<<1, 2>>, <<1, 3>>, <<3, 1>>, <<3, 2>>}),
                  Heartbeat(2),
                  Settle({<<1, 3>>, <<2, 1>>, <<2, 3>>, <<3, 1>>, <<3, 2>>}),
                  Command(2, 1), Command(2, 2),
                  Settle({<<1, 2>>, <<1, 3>>, <<2, 3>>, <<3, 1>>, <<3, 2>>}),
                  Hold({<<1, 3>>, <<2, 3>>, <<3, 1>>})>> >>

SpecLate == InitLate /\ [][Next]_vars

\* A cluster of three nodes in which a deposed leader hears of its deposition
\* by a rejection.  Node 1 is elected, sends a heartbeat and is given a
\* command while its links deliver nothing; the election timer of node 2 fires; the link from node 1
\* to node 2 delivers again and node 2 is given a command.
InitStale ==
    /\ InitNodes(1 .. 3)
    /\ env = << Startup(1 .. 3) \o
                <<Election(1), Heartbeat(1), Hold({<<1, 2>>, <<1, 3>>}),
                  Command(1, 1), Election(2), Hold({<<1, 3>>}),
                  Command(2, 1)>> >>

SpecStale == InitStale /\ [][Next]_vars

\* A healthy cluster of three nodes: no link is delayed, only the election
\* timer of node 1 fires, a client gives node 1 a command once it leads, and
\* the heartbeat timer of node 1 fires periodically.
InitHealthy ==
    /\ InitNodes(1 .. 3)
    /\ env = << Startup(1 .. 3) \o <<Hold({}), Election(1), Command(1, 1)>>,
                <<Heartbeats(1)>> >>

\* The actor engine hands every mailbox entry to Receive in the end: some
\* step is taken as long as one is possible, and a command that waits in the
\* mailbox of the leader is received.  (Fairness of each single action, which
\* the engine also gives, is stronger than this.)
Fairness ==
    /\ WF_vars(Next)
    /\ WF_vars(\E q \in DOMAIN env : ReceiveCommand(q))

SpecHealthy == InitHealthy /\ [][Next]_vars /\ Fairness

\* A cluster of three nodes in which a new leader meets a follower with a
\* shorter log.  Node 1 is elected; its link to node 3 delivers nothing and
\* a client gives it a command, which reaches node 2 only.  The election
\* timer of node 2 fires, and the heartbeat timer of node 2 once it leads.
InitRecover ==
    /\ InitNodes(1 .. 3)
    /\ env = << Startup(1 .. 3) \o
                <<Election(1), Hold({<<1, 3>>}), Command(1, 1),
                  Election(2), Heartbeat(2)>> >>

SpecRecover == InitRecover /\ [][Next]_vars

\* A cluster of three nodes whose membership shrinks: after the election
\* timer of node 1 fired, discovery announces to node 1 a membership of
\* nodes 1 and 2 only; later the heartbeat timer of node 1 fires, a client
\* gives it a command, and discovery announces all three nodes again.
InitShrink ==
    /\ InitNodes(1 .. 3)
    /\ env = << Startup(1 .. 3) \o
                <<Hold({}), Election(1), Announce(1, {1, 2}), Heartbeat(1),
                  Command(1, 1), Announce(1, {1, 2, 3})>> >>

SpecShrink == InitShrink /\ [][Next]_vars

\* Receiver states and AppendEntries messages drawn from bounded sets: logs
\* and entry lists of up to MaxLen entries with terms 1 .. MaxTerm that do
\* not decrease, the commands of the receiver's entries told apart from those
\* of the message.
MaxLen == 2
MaxTerm == 2

OrderedEntries(base) ==
    LET E == {[command |-> base + tm, term |-> tm] : tm \in 1 .. MaxTerm}
        All == UNION {[1 .. k -> E] : k \in 0 .. MaxLen}
    IN  {s \in All : \A i \in 1 .. Len(s), j \in 1 .. Len(s) :
                        i < j => s[i].term <= s[j].term}

DrawnAppendEntries ==
    {AppendEntries(tm, 1, prev, prevTerm, entries, commit) :
        tm \in {MaxTerm, MaxTerm + 1}, prev \in 0 .. MaxLen,
        prevTerm \in 0 .. MaxTerm, entries \in OrderedEntries(80),
        commit \in {0, MaxLen}}

\* A cluster of three nodes in which node 2 starts in a drawn state (term and
\* log) with a drawn AppendEntries of node 1 in flight to it; otherwise the
\* nodes are freshly constructed, the election timer of node 1 fires, then
\* its heartbeat timer, and a client gives it a command.
InitReplay ==
    \E lg \in OrderedEntries(70), ct \in {MaxTerm, MaxTerm + 1},
       msg \in DrawnAppendEntries :
        /\ (msg.prevLogIndex = 0) = (msg.prevLogTerm = 0)
        /\ leader = [n \in 1 .. 3 |-> Nil]
        /\ currentTerm = [n \in 1 .. 3 |-> IF n = 2 THEN ct ELSE 0]
        /\ votedFor = [n \in 1 .. 3 |-> Nil]
        /\ log = [n \in 1 .. 3 |-> IF n = 2 THEN lg ELSE <<>>]
        /\ logCap = [n \in 1 .. 3 |-> IF n = 2 THEN capacityOf(Len(lg)) ELSE 0]
        /\ commitIndex = [n \in 1 .. 3 |-> 0]
        /\ lastApplied = [n \in 1 .. 3 |-> 0]
        /\ votes = [n \in 1 .. 3 |-> 0]
        /\ nodes = [n \in 1 .. 3 |-> <<>>]
        /\ pendingCommands = [n \in 1 .. 3 |-> <<>>]
        /\ crashed = {}
        /\ net = [ch \in (1 .. 3) \X (1 .. 3) |->
                    IF ch = <<1, 2>> THEN <<msg>> ELSE <<>>]
        /\ wire = "open"
        /\ held = {}
        /\ handled = [n \in 1 .. 3 |-> <<>>]
        /\ replies = [n \in 1 .. 3 |-> <<>>]
        /\ elected = {}
        /\ rejections = [n \in 1 .. 3 |-> [p \in 1 .. 3 |-> 0]]
        /\ env = << Startup(1 .. 3) \o
                    <<Hold({}), Election(1), Heartbeat(1), Command(1, 1)>> >>

SpecReplay == InitReplay /\ [][Next]_vars

(***************************************************************************)
(* Operators the claims are stated with.                                   *)
(***************************************************************************)
\* The messages node n sent to node c in the step, oldest first.
Sent(n, c) ==
    IF Len(net'[<<n, c>>]) > Len(net[<<n, c>>])
    THEN SubSeq(net'[<<n, c>>], Len(net[<<n, c>>]) + 1, Len(net'[<<n, c>>]))
    ELSE <<>>

\* The messages in flight from n to c.
InFlight(n, c) == {net[<<n, c>>][i] : i \in 1 .. Len(net[<<n, c>>])}

IsLeader(n) == pidEquals(leader[n], n)

\* The number of nodes that hold entry e at index i of their log.
Holders(i, e) == Cardinality({m \in Cluster : Len(log[m]) >= i /\ log[m][i] = e})

\* The commands node n has handed to the application handler.
Handled(n) == {handled[n][i].command : i \in 1 .. Len(handled[n])}

\* Whether the sequence a is a prefix of the sequence b.
IsPrefix(a, b) == Len(a) <= Len(b) /\ SubSeq(b, 1, Len(a)) = a

\* The context of node to after one call of Receive with the AppendEntries
\* msg of node from, started in the node state s.
Delivered(s, to, from, msg) ==
    updateStateMachine(
        handleAppendEntries(
            handleExternalTerm(CtxOf(s, Ascending(DOMAIN s.nodes)), msg.term),
            to, from, msg), to)

\* The success value of the AppendEntriesResult a call of Receive sent.
Answer(c) == c.out[Len(c.out)].msg.success

\* The context of node to at the end of the call of Receive with the peer
\* message msg of node from.
Received(to, from, msg) ==
    LET c == handleExternalTerm(Ctx(to), msg.term)
    IN  updateStateMachine(
            CASE msg.type = "AppendEntries" -> handleAppendEntries(c, to, from, msg)
              [] msg.type = "AppendEntriesResult" -> handleAppendEntriesResult(c, to, msg)
              [] msg.type = "RequestVote" -> handleRequestVote(c, to, from, msg)
              [] msg.type = "RequestVoteResult" -> handleRequestVoteResult(c, to, msg),
            to)

\* The step is a call of Receive of node to with the message at the head of
\* the link from node from: the link loses its head and keeps the other
\* messages (what they share with the log of node from is not part of them).
Receives(from, to) ==
    /\ net[<<from, to>>] # <<>>
    /\ Len(net'[<<from, to>>]) = Len(net[<<from, to>>]) - 1
    /\ \A i \in 1 .. Len(net'[<<from, to>>]) :
          copied(net'[<<from, to>>][i]) = copied(net[<<from, to>>][i + 1])

(***************************************************************************)
(* Claims.                                                                 *)
(***************************************************************************)

\* C1 (Election Safety): for every term, at most one node has ever had
\* leader = self while its currentTerm was that term.
ElectionSafety ==
    \A a \in elected, b \in elected : a[2] = b[2] => a[1] = b[1]

\* C2 (State Machine Safety): whenever two nodes (or one node) have handed
\* the entry of log index i to the application handler, it is the same entry.
StateMachineSafety ==
    \A m \in Cluster, n \in Cluster :
        \A i \in 1 .. Min(Len(handled[m]), Len(handled[n])) :
            handled[m][i] = handled[n][i]

\* C3 (commit durability): an entry at an index up to a leader's commitIndex
\* is at that index in the logs of strictly more than half of the cluster, and
\* in the log of every leader of a higher term.
CommitDurability ==
    \A n \in Cluster :
        IsLeader(n) =>
            \A i \in 1 .. Min(commitIndex[n], Len(log[n])) :
                /\ 2 * Holders(i, log[n][i]) > Cardinality(Cluster)
                /\ \A m \in Cluster :
                        IsLeader(m) /\ currentTerm[m] > currentTerm[n] =>
                            Len(log[m]) >= i /\ log[m][i] = log[n][i]

\* C4 (Log Matching): two logs that hold an entry of the same term at index i
\* are identical up to i, terms and commands.
LogMatching ==
    \A m \in Cluster, n \in Cluster :
        \A i \in 1 .. Min(Len(log[m]), Len(log[n])) :
            log[m][i].term = log[n][i].term =>
                SubSeq(log[m], 1, i) = SubSeq(log[n], 1, i)

\* C5: at every handler boundary lastApplied <= commitIndex <= len(log), and
\* no call of Receive has read the log past its end.
CommitWithinLog ==
    /\ \A n \in Cluster :
            lastApplied[n] <= commitIndex[n] /\ commitIndex[n] <= Len(log[n])
    /\ crashed = {}

\* C6: a node that has leader = self holds votes of strictly more than half of
\* the cluster (its peers and itself).
PromotionNeedsMajority ==
    \A n \in Cluster :
        IsLeader(n) => 2 * votes[n] > Cardinality(DOMAIN nodes[n]) + 1

\* C7: a leader's commitIndex is at least every index of a current-term entry
\* that the leader and the peers with matchIndex >= i, together strictly more
\* than half of the cluster, hold.
LeaderCountsItself ==
    \A n \in Cluster :
        IsLeader(n) =>
            \A i \in 1 .. Len(log[n]) :
                (/\ log[n][i].term = currentTerm[n]
                 /\ 2 * (1 + Cardinality({p \in DOMAIN nodes[n] :
                                             nodes[n][p].matchIndex >= i}))
                        > Cardinality(DOMAIN nodes[n]) + 1)
                => commitIndex[n] >= i

\* C8: within a term a set votedFor does not change, and a RequestVoteResult
\* with voteGranted goes only to the candidate votedFor names, in the term of
\* the vote.
VoteOncePerTerm ==
    [][\A n \in Cluster :
          /\ (currentTerm'[n] = currentTerm[n] /\ votedFor[n] # Nil)
                => votedFor'[n] = votedFor[n]
          /\ \A c \in Cluster : \A i \in 1 .. Len(Sent(n, c)) :
                (Sent(n, c)[i].type = "RequestVoteResult" /\ Sent(n, c)[i].voteGranted)
                => (votedFor'[n] = c /\ Sent(n, c)[i].term = currentTerm'[n])]_vars

\* C8 witness: a node that voted for one candidate has refused another
\* candidate of the same term.
VoteRefusedWitness ==
    \E n \in Cluster, d \in Cluster :
        /\ votedFor[n] \notin {Nil, n, d}
        /\ votedFor[d] = d /\ currentTerm[d] = currentTerm[n]
        /\ \E r \in InFlight(n, d) :
              r.type = "RequestVoteResult" /\ ~r.voteGranted /\ r.term = currentTerm[n]

\* C9: no step decreases the currentTerm of a node.
TermMonotonic ==
    [][\A n \in Cluster : currentTerm'[n] >= currentTerm[n]]_vars

\* C9 witness: a node has answered a RequestVote of a lower term than its own
\* (its answer carries a term above the candidate's current term).
StaleTermWitness ==
    \E n \in Cluster, c \in Cluster :
        \E r \in InFlight(n, c) :
            /\ r.type = "RequestVoteResult" /\ ~r.voteGranted
            /\ r.term = currentTerm[n] /\ currentTerm[c] < r.term

\* C10: no step decreases the commitIndex of a node.
CommitMonotonic ==
    [][\A n \in Cluster : commitIndex'[n] >= commitIndex[n]]_vars

\* C11 (Leader Append-Only): in a step of a node that is leader before the
\* step, the log before the step is a prefix of the log after it.
LeaderAppendOnly ==
    [][\A n \in Cluster : IsLeader(n) => IsPrefix(log[n], log'[n])]_vars

\* C12: in every log the terms of the entries do not decrease with the index,
\* and no entry has a term above the currentTerm of the node that holds it.
LogTermsOrdered ==
    \A n \in Cluster :
        /\ \A i \in 1 .. Len(log[n]), j \in 1 .. Len(log[n]) :
                i < j => log[n][i].term <= log[n][j].term
        /\ \A i \in 1 .. Len(log[n]) : log[n][i].term <= currentTerm[n]

\* C13: a Command received by a node that is not leader is answered with
\* exactly one CommandResult{success = false, redirect = the node's leader},
\* leaves log, pendingCommands, currentTerm and commitIndex of the node as
\* they are and sends no message to a peer.
CommandRedirected ==
    [][\A q \in DOMAIN env :
          (/\ Pending(q, "Command")
           /\ env'[q] = Tail(env[q])
           /\ ~IsLeader(Head(env[q]).node))
          => LET in == Head(env[q])
                 n == in.node
             IN  /\ Len(replies'[n]) = Len(replies[n]) + 1
                 /\ SubSeq(replies'[n], 1, Len(replies[n])) = replies[n]
                 /\ replies'[n][Len(replies'[n])].to = in.client
                 /\ replies'[n][Len(replies'[n])].msg =
                        [success |-> FALSE, redirectPID |-> leader[n]]
                 /\ log'[n] = log[n]
                 /\ pendingCommands'[n] = pendingCommands[n]
                 /\ currentTerm'[n] = currentTerm[n]
                 /\ commitIndex'[n] = commitIndex[n]
                 /\ net' = net]_vars

\* C13 witness: a node that follows another leader has redirected a client
\* to that leader.
RedirectedWitness ==
    \E n \in Cluster : \E i \in 1 .. Len(replies[n]) :
        /\ ~replies[n][i].msg.success
        /\ replies[n][i].msg.redirectPID \notin {Nil, n}
        /\ replies[n][i].msg.redirectPID = leader[n]

\* C14 (replication liveness): in a healthy three-node cluster the command
\* given to the leader is appended at the next index with the leader's term,
\* and eventually all three nodes have handed it to the application handler
\* and the client has received CommandResult{success = true}.
Replicated ==
    /\ \A n \in Cluster : Handled(n) = {11}
    /\ \E i \in 1 .. Len(replies[1]) :
            replies[1][i].to = 101 /\ replies[1][i].msg.success

ReplicationLiveness ==
    /\ [][\A q \in DOMAIN env :
             (Pending(q, "Command") /\ env'[q] = Tail(env[q]))
             => log'[1] = Append(log[1], [command |-> 11, term |-> currentTerm[1]])]_vars
    /\ <>Replicated

\* C14 witness: the three nodes have applied the command and the client has
\* its success.
ReplicatedWitness ==
    Replicated /\ \A n \in Cluster : commitIndex[n] = 1 /\ lastApplied[n] = 1

\* C15 (log divergence recovery): a leader handles at most len(log) rejections
\* of a follower before the follower's first success.
RejectionsWithinLog ==
    \A a \in Cluster, c \in Cluster :
        IsLeader(a) /\ rejections[a][c] >= 0 => rejections[a][c] <= Len(log[a])

\* C16 (three-node election): when only the election timer of node 1 fires,
\* eventually and from then on node 1 is the leader of term 1 that all three
\* nodes know, every node is in term 1, and nodes 2 and 3 have given their
\* vote of term 1 to node 1.
ElectedBy(a) ==
    \A n \in Cluster : leader[n] = a /\ currentTerm[n] = 1 /\ votedFor[n] = a

ElectionCompletes == <>[]ElectedBy(1)

\* C16 witness: node 1 leads term 1 with the votes of nodes 2 and 3, both
\* follow it, and no message is in flight.
ElectedWitness == ElectedBy(1) /\ Quiet /\ <<1, 1>> \in elected

\* C17 (sub-quorum election refusal): no node has leader = self while its
\* cluster view (its peers and itself) has fewer than minServersForElection
\* members.
NoLeaderBelowQuorum ==
    \A n \in Cluster :
        IsLeader(n) => Cardinality(DOMAIN nodes[n]) + 1 >= minServersForElection

\* C18: a node that is not leader has no pending command.
PendingOnlyOnLeader ==
    \A n \in Cluster : ~IsLeader(n) => DOMAIN pendingCommands[n] = {}

\* C19: handling an ActiveNodes update, a node keeps nextIndex and matchIndex
\* of every listed peer that was in its table, gives a newly listed peer
\* nextIndex = lastLogIndex + 1 and matchIndex = 0, drops the peers no longer
\* listed and never lists itself.
ActiveNodesKeepsCursors ==
    [][\A q \in DOMAIN env :
          (Pending(q, "ActiveNodes") /\ env'[q] = Tail(env[q]))
          => LET n == Head(env[q]).node
                 view == Head(env[q]).view
             IN  /\ DOMAIN nodes'[n] = view \ {n}
                 /\ \A p \in view \ {n} :
                        nodes'[n][p] =
                            IF p \in DOMAIN nodes[n] THEN nodes[n][p]
                            ELSE [nextIndex |-> Len(log[n]) + 1, matchIndex |-> 0]]_vars

\* C20 (idempotence of AppendEntries): for the AppendEntries next in line on
\* any link, receiving it twice in a row leaves the same log as receiving it
\* once, and the second answer has the success value of the first.
AppendEntriesIdempotent ==
    \A from \in Cluster, to \in Cluster :
        (net[<<from, to>>] # <<>> /\ Head(net[<<from, to>>]).type = "AppendEntries")
        => LET msg == Head(net[<<from, to>>])
               once == Delivered(NodeState(to), to, from, msg)
               twice == Delivered(once.s, to, from, msg)
           IN  ~once.panic
               => /\ twice.s.log = once.s.log
                  /\ Answer(twice) = Answer(once)

\* C20 witness: the AppendEntries next in line is accepted and makes the
\* receiver drop a conflicting entry and append entries of the message.
TruncatingAppendEntries ==
    \E from \in Cluster, to \in Cluster :
        /\ net[<<from, to>>] # <<>>
        /\ Head(net[<<from, to>>]).type = "AppendEntries"
        /\ LET msg == Head(net[<<from, to>>])
               once == Delivered(NodeState(to), to, from, msg)
           IN  /\ Answer(once)
               /\ Len(log[to]) >= 1
               /\ ~IsPrefix(log[to], once.s.log)
               /\ Len(once.s.log) >= Len(log[to])

\* C21 (pre-dispatch term advance): when a node receives a peer message with a
\* term T above its currentTerm, handleExternalTerm leaves currentTerm = T
\* with leader and votedFor cleared before the handler runs; after the step
\* currentTerm is T, the node is not leader, and votedFor is unset or the
\* candidate of the RequestVote received.
PreDispatchTermAdvance ==
    [][\A from \in Cluster, to \in Cluster :
          (Receives(from, to) /\ Head(net[<<from, to>>]).term > currentTerm[to])
          => LET msg == Head(net[<<from, to>>])
                 pre == handleExternalTerm(Ctx(to), msg.term).s
             IN  /\ pre.currentTerm = msg.term
                 /\ pre.leader = Nil /\ pre.votedFor = Nil
                 /\ currentTerm'[to] = msg.term
                 /\ ~pidEquals(leader'[to], to)
                 /\ \/ votedFor'[to] = Nil
                    \/ /\ msg.type = "RequestVote"
                       /\ votedFor'[to] = msg.candidatePID]_vars

\* C21 witness: a node that led a term is in a higher term, no longer leader,
\* and has given its vote to the candidate whose RequestVote advanced it.
DeposedWitness ==
    \E n \in Cluster : \E e \in elected :
        /\ e[1] = n /\ currentTerm[n] > e[2]
        /\ ~IsLeader(n)
        /\ votedFor[n] \notin {Nil, n}

\* C22 (Raft commit rule): when the commit scan of a leader changes its
\* commitIndex, the entry at the new commitIndex has the leader's currentTerm.
\* (A node that is leader at the end of a step has not accepted an
\* AppendEntries in it, so the change is the scan's.)
CommitRule ==
    [][\A n \in Cluster :
          (pidEquals(leader'[n], n) /\ commitIndex'[n] # commitIndex[n])
          => /\ commitIndex'[n] = leaderCommitIndex(
                    [NodeState(n) EXCEPT !.log = log'[n], !.nodes = nodes'[n],
                                         !.leader = leader'[n],
                                         !.currentTerm = currentTerm'[n]])
             /\ commitIndex'[n] \in 1 .. Len(log'[n])
             /\ log'[n][commitIndex'[n]].term = currentTerm'[n]]_vars

\* C22 witness: a leader has committed an entry of its own term, and with it
\* an entry of an earlier term below it.
EarlierTermCommittedWitness ==
    \E n \in Cluster :
        /\ IsLeader(n)
        /\ commitIndex[n] \in 2 .. Len(log[n])
        /\ log[n][commitIndex[n]].term = currentTerm[n]
        /\ log[n][1].term < currentTerm[n]

\* C23: a node answers a RequestVote with voteGranted only if the candidate's
\* log is at least as up-to-date as its own: the candidate's lastLogTerm is
\* above the term of the receiver's last entry, or equal to it with a
\* lastLogIndex of at least the length of the receiver's log.
VoteOnlyForUpToDate ==
    [][\A from \in Cluster, to \in Cluster :
          (/\ Receives(from, to)
           /\ Head(net[<<from, to>>]).type = "RequestVote"
           /\ \E i \in 1 .. Len(Sent(to, from)) :
                  /\ Sent(to, from)[i].type = "RequestVoteResult"
                  /\ Sent(to, from)[i].voteGranted)
          => LET msg == Head(net[<<from, to>>])
                 last == lastLogIndexAndTerm(NodeState(to))
             IN  \/ msg.lastLogTerm > last[2]
                 \/ msg.lastLogTerm = last[2] /\ msg.lastLogIndex >= last[1]]_vars

\* C24: a call of Receive with a peer message re-arms the election timer
\* exactly when it answers an AppendEntries with success or a RequestVote
\* with voteGranted; the election-timer fire that starts an election re-arms
\* it; a Command, an ActiveNodes and a heartbeat-timer fire do not.
ElectionTimerRearmed ==
    [][/\ \A from \in Cluster, to \in Cluster :
            Receives(from, to)
            => LET msg == Head(net[<<from, to>>])
                   c == Received(to, from, msg)
               IN  c.rearm <=>
                      \/ msg.type = "AppendEntries" /\ c.out[1].msg.success
                      \/ msg.type = "RequestVote" /\ c.out[1].msg.voteGranted
       /\ \A q \in DOMAIN env :
            (env[q] # <<>> /\ env'[q] = Tail(env[q]))
            => LET in == Head(env[q])
               IN  /\ in.kind = "Election"
                        => electionTimerFired(Ctx(in.node), in.node).rearm
                   /\ in.kind = "Command"
                        => ~handleCommand(Ctx(in.node), in.node, in.client,
                                          in.command).rearm
                   /\ in.kind = "ActiveNodes"
                        => ~handleActiveNodes(Ctx(in.node), in.node, in.view).rearm
                   /\ in.kind = "Heartbeat"
                        => ~sendAppendEntriesAll(Ctx(in.node), in.node).rearm]_vars

\* C25 (matchIndex is sound): when a leader records matchIndex m for a peer,
\* the peer's log has at least m entries and agrees with the leader's log on
\* the first m.
MatchIndexSound ==
    \A a \in Cluster :
        IsLeader(a) =>
            \A p \in DOMAIN nodes[a] :
                LET mi == nodes[a][p].matchIndex
                IN  /\ Len(log[p]) >= mi
                    /\ Len(log[a]) >= mi
                    /\ SubSeq(log[p], 1, mi) = SubSeq(log[a], 1, mi)

\* C26 (only leaders send AppendEntries): a node that sends an AppendEntries
\* has leader = self, and the message carries its identity as leaderPID and
\* its currentTerm as term.
OnlyLeadersSendAppendEntries ==
    [][\A n \in Cluster, c \in Cluster : \A i \in 1 .. Len(Sent(n, c)) :
          Sent(n, c)[i].type = "AppendEntries"
          => /\ pidEquals(leader'[n], n)
             /\ Sent(n, c)[i].leaderPID = n
             /\ Sent(n, c)[i].term = currentTerm'[n]]_vars

\* C27: a CommandResult{success = true} that a node sends on applying index i
\* goes to the client that submitted to this node the command applied at i.
SuccessForOwnCommand ==
    \A n \in Cluster : \A i \in 1 .. Len(replies[n]) :
        replies[n][i].msg.success
        => /\ replies[n][i].to = Submitter(replies[n][i].command)
           /\ replies[n][i].to = 100 + n

\* C28 (replication cursors stay in range): on every node, leader or not, the
\* nextIndex of every peer of its table is between 1 and len(log) + 1, and no
\* call of Receive has read the log past its end.
CursorsInRange ==
    /\ \A n \in Cluster : \A p \in DOMAIN nodes[n] :
            /\ 1 <= nodes[n][p].nextIndex
            /\ nodes[n][p].nextIndex <= Len(log[n]) + 1
    /\ crashed = {}

\* C29 (apply order): every call of Receive hands to the application handler
\* the entries of the indices lastApplied + 1, lastApplied + 2, ... up to the
\* new lastApplied, in this order and each once, lastApplied never decreases,
\* and at the end of the call lastApplied = commitIndex.
ApplyInOrder ==
    [][\A n \in Cluster :
          /\ lastApplied'[n] = commitIndex'[n]
          /\ lastApplied'[n] >= lastApplied[n]
          /\ Len(handled'[n]) = lastApplied'[n]
          /\ handled'[n] =
                handled[n] \o [k \in 1 .. (lastApplied'[n] - lastApplied[n]) |->
                                  log'[n][lastApplied[n] + k]]]_vars

====
